---- MODULE Spec2Model ----
(***************************************************************************)
(* A model of adgai19/mailserver (src/main.go): the SMTP session           *)
(* (Mail, Rcpt, Data, Reset, Logout), the admission check `allow`, the     *)
(* API middleware chain and the GET / DELETE handlers of /emails/:username,*)
(* over a model of the Redis store they share.                             *)
(*                                                                         *)
(* Strings that the code takes apart (recipient addresses, usernames) are  *)
(* sequences of one-character strings; strings it only copies or compares  *)
(* (sender addresses, client addresses, the API key) are TLA+ strings.     *)
(* Time is counted in units of 30 seconds, half the admission window.      *)
(***************************************************************************)
EXTENDS Integers, Sequences, FiniteSets, TLC

VARIABLES
    allowedDomain,  \* var allowedDomain, set by init() from DOMAIN
    sess,           \* the Session of each SMTP connection: from, to, and where its Data call stands
    last,           \* the outcome of the Rcpt or Data call that returned last
    inbox,          \* Redis lists inbox:<username>, head first; <<>> is "no such key"
    inboxExp,       \* the time each inbox key expires at, NoExpiry when it has no expiry
    counter,        \* Redis integers smtp:<from> and api:<ip>; 0 is "no such key"
    counterExp,     \* the time each counter key expires at
    now,            \* the clock
    req,            \* the HTTP request each API worker is serving, and where it stands
    resp,           \* the HTTP response written last
    hist            \* history: what the store did, to state the claims (not read by the code)

vars == <<allowedDomain, sess, last, inbox, inboxExp, counter, counterExp, now, req, resp, hist>>

(***************************************************************************)
(* Bounds of the model.                                                    *)
(***************************************************************************)
\* Longest recipient string handed to Rcpt in SpecRcpt.
MaxAddrLen == 4
\* The clock advances only while it is below MaxTime.
MaxTime == 1
\* Data calls started in one behaviour.
MaxData == 2
\* API requests started in one behaviour.
MaxReq == 2
\* assignments of one envelope field counted per connection
MaxAssign == 2
\* entries of one inbox that were not written by Session.Data
MaxForeign == 1
\* parts of one mail stream
MaxParts == 3

(***************************************************************************)
(* Program constants.                                                      *)
(***************************************************************************)
\* allow(..., 50, time.Minute) in Session.Data
SmtpLimit == 50
\* allow(..., 100, time.Minute) in the API middleware
ApiLimit == 100
\* time.Minute, in units of 30 seconds
Window == 2
\* 24*time.Hour, in units of 30 seconds
InboxTTL == 2880
\* LRange(ctx, key, 0, 49): the last index listed
ListStop == 49

NoExpiry == -1

(***************************************************************************)
(* Strings as sequences of characters.                                     *)
(***************************************************************************)
DQ == "\""
AT == "@"
\* The characters recipient strings are drawn from: a letter in both cases and
\* the at sign.
Chars == {"x", "X", AT}

RECURSIVE StringsUpTo(_)
StringsUpTo(n) ==
    IF n = 0 THEN {<<>>}
    ELSE LET shorter == StringsUpTo(n - 1)
         IN  shorter \cup {Append(t, c) : t \in {w \in shorter : Len(w) = n - 1}, c \in Chars}

\* strings.Index(addr, "@"): the first position of "@" (1-based), 0 when absent (-1 in Go)
IndexOf(str, c) ==
    IF \E i \in 1..Len(str) : str[i] = c
    THEN CHOOSE i \in 1..Len(str) : str[i] = c /\ \A j \in 1..(i - 1) : str[j] # c
    ELSE 0

\* strings.Split(str, "@")
RECURSIVE Split(_, _)
Split(str, c) ==
    LET i == IndexOf(str, c)
    IN  IF i = 0 THEN <<str>>
        ELSE <<SubSeq(str, 1, i - 1)>> \o Split(SubSeq(str, i + 1, Len(str)), c)

\* Unicode simple case folding, on the letters of Chars
Fold(c) == IF c = "X" THEN "x" ELSE c

\* a comparison that does not fold case
EqualExact(a, b) == a = b

\* strings.EqualFold(a, b)
EqualFold(a, b) == Len(a) = Len(b) /\ \A i \in 1..Len(a) : Fold(a[i]) = Fold(b[i])

IsAtom(str) == Len(str) > 0 /\ \A i \in 1..Len(str) : str[i] \notin {AT, DQ}

(***************************************************************************)
(* mail.ParseAddress on a bare addr-spec: local-part "@" domain, where the *)
(* local part is an atom or a quoted string (returned unquoted, so that    *)
(* Address may hold more than one "@") and the domain an atom.  Anything   *)
(* else is a parse error.                                                  *)
(***************************************************************************)
ParseAddress(str) ==
    LET bad == [ok |-> FALSE, Address |-> <<>>]
    IN  IF Len(str) = 0 THEN bad
        ELSE IF str[1] = DQ
        THEN LET rest  == SubSeq(str, 2, Len(str))
                 close == IndexOf(rest, DQ)
                 local == SubSeq(rest, 1, close - 1)
                 tail  == SubSeq(rest, close + 1, Len(rest))
             IN  IF close = 0 \/ Len(local) = 0 \/ Len(tail) = 0 THEN bad
                 ELSE IF tail[1] # AT \/ ~IsAtom(Tail(tail)) THEN bad
                 ELSE [ok |-> TRUE, Address |-> local \o <<AT>> \o Tail(tail)]
        ELSE LET at == IndexOf(str, AT)
             IN  IF at = 0 THEN bad
                 ELSE IF ~IsAtom(SubSeq(str, 1, at - 1)) \/ ~IsAtom(SubSeq(str, at + 1, Len(str)))
                 THEN bad
                 ELSE [ok |-> TRUE, Address |-> str]

\* parseUsername(addr)
parseUsername(addr) ==
    LET at == IndexOf(addr, AT)
    IN  IF at = 0 THEN addr ELSE SubSeq(addr, 1, at - 1)

(***************************************************************************)
(* The inputs the environment draws from.                                  *)
(***************************************************************************)
Sessions == {"c1", "c2"}
Workers == {"w1"}
\* MAIL FROM arguments; "" is the from of a session on which Mail was never called
Senders == {"a@x.com", "b@y.org"}
\* RCPT TO arguments in Spec: two accepted ones, one of a foreign domain, one unparsable
RcptInputs == {<<"u", AT, "x">>, <<"x", AT, "X">>, <<"u", AT, "u">>, <<"u">>}
\* the :username path parameter of an API request
ApiUsers == {<<"u">>, <<"x">>}
ClientIPs == {"10.0.0.1"}
\* os.Getenv("API_KEY")
ApiKey == "secret"
\* X-API-KEY header values: missing, right, wrong
KeyHeaders == {"", ApiKey, "wrong"}
\* the usernames an inbox key can carry in Spec
UserKeys == {<<>>} \cup ApiUsers
     \cup {parseUsername(ParseAddress(t).Address) : t \in {r \in RcptInputs : ParseAddress(r).ok}}
CounterKeys == {<<"smtp", f>> : f \in Senders \cup {""}} \cup {<<"api", ip>> : ip \in ClientIPs}

\* How a call to the store ends: done and answered; not done (store unreachable);
\* done but the answer never read (connection lost after the command was applied).
Outcomes == {"ok", "down", "lost"}
Applied(outcome) == outcome \in {"ok", "lost"}

(***************************************************************************)
(* Mail streams handed to Data.  A stream is its top-level header (which   *)
(* may fail to parse) and its parts in order; a part is inline, an         *)
(* attachment, or a place where NextPart returns an error other than EOF.  *)
(***************************************************************************)
Inline(ct, body) == [kind |-> "inline", ct |-> ct, body |-> body, filename |-> ""]
Attachment(name) == [kind |-> "attachment", ct |-> "", body |-> "", filename |-> name]
BadPart == [kind |-> "error", ct |-> "", body |-> "", filename |-> ""]
Stream(hdrOK, subject, parts) == [headerOK |-> hdrOK, subject |-> subject, parts |-> parts]

Streams ==
    { Stream(TRUE, "Hi", <<Inline("text/plain", "hello")>>),
      Stream(TRUE, "Re", <<Inline("text/html", "<p>")>>),
      Stream(FALSE, "", <<>>),
      Stream(TRUE, "Hi", <<Inline("text/plain", "hello"), BadPart>>) }

\* a loop that stops at a part that errors as it does at EOF
RECURSIVE ReadPartsLenient(_, _)
ReadPartsLenient(parts, acc) ==
    IF parts = <<>> \/ Head(parts).kind = "error" THEN acc
    ELSE LET p == Head(parts)
         IN  IF p.kind = "inline"
             THEN ReadPartsLenient(Tail(parts),
                      CASE p.ct = "text/html"  -> [acc EXCEPT !.bodyHTML = p.body]
                        [] p.ct = "text/plain" -> [acc EXCEPT !.bodyText = p.body]
                        [] OTHER -> acc)
             ELSE ReadPartsLenient(Tail(parts), [acc EXCEPT !.attachments = Append(@, p.filename)])

\* a loop that keeps the first inline part of each type
RECURSIVE ReadPartsFirstWins(_, _)
ReadPartsFirstWins(parts, acc) ==
    IF parts = <<>> THEN acc
    ELSE LET p == Head(parts)
         IN  CASE p.kind = "error" -> [acc EXCEPT !.ok = FALSE]
               [] p.kind = "inline" ->
                    ReadPartsFirstWins(Tail(parts),
                        CASE p.ct = "text/html" /\ acc.bodyHTML = "" -> [acc EXCEPT !.bodyHTML = p.body]
                          [] p.ct = "text/plain" /\ acc.bodyText = "" -> [acc EXCEPT !.bodyText = p.body]
                          [] OTHER -> acc)
               [] OTHER ->
                    ReadPartsFirstWins(Tail(parts), [acc EXCEPT !.attachments = Append(@, p.filename)])

\* The loop of Session.Data over mr.NextPart(): the fields collected from
\* `parts`, starting from `acc`, or failure at the first part that errors.
RECURSIVE ReadParts(_, _)
ReadParts(parts, acc) ==
    IF parts = <<>> THEN acc
    ELSE LET p == Head(parts)
         IN  CASE p.kind = "error" -> [acc EXCEPT !.ok = FALSE]
               [] p.kind = "inline" ->
                    ReadParts(Tail(parts),
                        CASE p.ct = "text/html"  -> [acc EXCEPT !.bodyHTML = p.body]
                          [] p.ct = "text/plain" -> [acc EXCEPT !.bodyText = p.body]
                          [] OTHER -> acc)
               [] OTHER ->
                    ReadParts(Tail(parts), [acc EXCEPT !.attachments = Append(@, p.filename)])

\* mail.CreateReader followed by the loop: the Message Decomposer
Decompose(m) ==
    LET empty == [ok |-> TRUE, bodyText |-> "", bodyHTML |-> "", attachments |-> <<>>]
    IN  IF ~m.headerOK THEN [empty EXCEPT !.ok = FALSE] ELSE ReadParts(m.parts, empty)

\* the map Session.Data builds
BuildMsg(s, m, d) ==
    [id |-> now, from |-> sess[s].from, to |-> sess[s].to, subject |-> m.subject,
     body_text |-> d.bodyText, body_html |-> d.bodyHTML, attachments |-> d.attachments,
     received_at |-> now]

\* json.Marshal of that map, and json.Unmarshal of a stored entry
Marshal(msg) == <<"json", msg>>
Undecodable == <<"garbage">>
NilMessage == [nil |-> TRUE]
Unmarshal(entry) == IF entry[1] = "json" THEN entry[2] ELSE NilMessage

(***************************************************************************)
(* The store.  A key that expires is removed when the clock reaches its    *)
(* expiry (Advance), so every key present is live.                         *)
(***************************************************************************)
\* a write that replaces the newest entry instead of pushing (a lost update)
SetHead(list, entry) == IF list = <<>> THEN <<entry>> ELSE <<entry>> \o Tail(list)

\* a push to the tail of the list (RPUSH)
RPush(list, entry) == Append(list, entry)

\* LPUSH key entry
LPush(list, entry) == <<entry>> \o list

\* LRANGE key 0 stop
LRange(list, stop) == SubSeq(list, 1, IF Len(list) < stop + 1 THEN Len(list) ELSE stop + 1)

\* EXPIRE key ttl: sets the expiry of a key that exists, does nothing to one that does not
Expire(exists, old, ttl) == IF exists THEN now + ttl ELSE old

\* The value incr.Val() holds after pipe.Exec: the post-increment count when
\* the reply was read, the zero value of an unset command otherwise.
IncrVal(key, outcome) == IF outcome = "ok" THEN counter[key] + 1 ELSE 0

\* allow's return value
allow(key, limit, outcome) == IncrVal(key, outcome) <= limit

\* a transaction that stops counting at the limit
allowTxCapped(key, window, outcome) ==
    LET limit == IF key[1] = "smtp" THEN SmtpLimit ELSE ApiLimit
        counted == Applied(outcome) /\ counter[key] < limit
    IN  /\ counter' = IF counted THEN [counter EXCEPT ![key] = @ + 1] ELSE counter
        /\ counterExp' = IF Applied(outcome)
                         THEN [counterExp EXCEPT ![key] = Expire(TRUE, @, window)]
                         ELSE counterExp

\* allow's transaction on the store: MULTI, INCR key, EXPIRE key window, EXEC
allowTx(key, window, outcome) ==
    /\ counter' = IF Applied(outcome) THEN [counter EXCEPT ![key] = @ + 1] ELSE counter
    /\ counterExp' = IF Applied(outcome)
                     THEN [counterExp EXCEPT ![key] = Expire(TRUE, @, window)]
                     ELSE counterExp

\* history of allow: the increments applied to a key's counter and the calls
\* answered "allowed", both since the counter was created
allowHist(key, limit, outcome) ==
    [hist EXCEPT !.incrs[key] = IF Applied(outcome) THEN @ + 1 ELSE @,
                 !.trues[key] = IF allow(key, limit, outcome) THEN @ + 1 ELSE @]

(***************************************************************************)
(* Initial states.                                                         *)
(***************************************************************************)
\* NewSession: &Session{app: b.app}
NoStream == [headerOK |-> FALSE, subject |-> "", parts |-> <<>>]
\* m and pushed are history: the stream the running Data call read, and whether
\* the store applied its LPush.  So are nFrom and nTo, the number of times Mail
\* and Rcpt assigned s.from and s.to on this connection, and reset: Reset was
\* called and neither field was assigned since.
FreshSession == [from |-> "", to |-> <<>>, pc |-> "idle", m |-> NoStream, pushed |-> FALSE,
                 nFrom |-> 0, nTo |-> 0, reset |-> FALSE]
NoCall == [s |-> "", op |-> "none", arg |-> <<>>, err |-> "nil", pushed |-> FALSE]
IdleWorker == [pc |-> "idle", method |-> "", user |-> <<>>]
NoResponse == [w |-> "", method |-> "", user |-> <<>>, key |-> "", status |-> 0, out |-> <<>>,
               body |-> [kind |-> "", items |-> <<>>]]

\* The inbox of <<"u">> after n transactions of "a@x.com" to u@x were stored,
\* the last of them Window before time 0: entry 1 is the newest.
StoredBefore(n) ==
    [i \in 1..n |->
        Marshal([id |-> 0 - Window, from |-> "a@x.com", to |-> <<"u", AT, "x">>,
                 subject |-> IF (n - i) % 2 = 0 THEN "Hi" ELSE "Re",
                 body_text |-> IF (n - i) % 2 = 0 THEN "hello" ELSE "",
                 body_html |-> IF (n - i) % 2 = 0 THEN "" ELSE "<p>",
                 attachments |-> <<>>, received_at |-> 0 - Window])]

RECURSIVE Reverse(_)
Reverse(seq) == IF seq = <<>> THEN <<>> ELSE Append(Reverse(Tail(seq)), Head(seq))

\* a connection after MAIL FROM:<a@x.com> and RCPT TO:<u@x>
ReadySession ==
    [FreshSession EXCEPT !.from = "a@x.com", !.to = <<"u", AT, "x">>, !.nFrom = 1, !.nTo = 1]

\* The state after construction when every connection is a FreshSession and
\* nStored, nSmtp and nApi are 0.  Otherwise a state the running server
\* reaches: the connections have their envelope, inbox u holds nStored records
\* stored a window ago, "a@x.com" has made nSmtp Data calls and the client nApi
\* requests in the window that is open at time 0; nData Data calls of this run
\* are over.
InitAfter(domains, session, nStored, nSmtp, nApi, nData) ==
    /\ allowedDomain \in domains
    /\ sess = [s \in Sessions |-> session]
    /\ last = NoCall
    /\ inbox = [u \in UserKeys |-> IF u = <<"u">> THEN StoredBefore(nStored) ELSE <<>>]
    /\ inboxExp = [u \in UserKeys |->
                     IF u = <<"u">> /\ nStored > 0 THEN InboxTTL - Window ELSE NoExpiry]
    /\ counter = [k \in CounterKeys |->
                     CASE k = <<"smtp", "a@x.com">> -> nSmtp
                       [] k[1] = "api" -> nApi
                       [] OTHER -> 0]
    /\ counterExp = [k \in CounterKeys |-> IF counter[k] > 0 THEN Window ELSE NoExpiry]
    /\ now = 0
    /\ req = [w \in Workers |-> IdleWorker]
    /\ resp = NoResponse
    /\ hist = [data |-> nData, reqs |-> 0,
               cleared |-> [u \in UserKeys |-> FALSE],
               pushes |-> [u \in UserKeys |-> Reverse([i \in 1..Len(inbox[u]) |-> inbox[u][i][2]])],
               incrs |-> counter,
               trues |-> counter]

\* InitAfter when no Data call was made before
InitWith(domains, session, nStored, nSmtp, nApi) ==
    InitAfter(domains, session, nStored, nSmtp, nApi, 0)

(***************************************************************************)
(* The SMTP session.  The methods of one session run one at a time (one    *)
(* goroutine per connection); Data is three steps, one per call it makes   *)
(* to the store, and other sessions and requests run in between.           *)
(***************************************************************************)
Returned(s, op, arg, err, pushed) ==
    [s |-> s, op |-> op, arg |-> arg, err |-> err, pushed |-> pushed]

\* func (s *Session) Mail(from string, ...) error
Mail(s, from) ==
    /\ sess[s].pc = "idle"
    /\ sess[s].nFrom < MaxAssign
    /\ sess' = [sess EXCEPT ![s].from = from, ![s].nFrom = @ + 1, ![s].reset = FALSE]
    /\ UNCHANGED <<allowedDomain, last, inbox, inboxExp, counter, counterExp, now, req, resp, hist>>

\* The error Rcpt returns for `to`, "nil" when it accepts it
RcptError(to) ==
    LET addr == ParseAddress(to)
        parts == Split(addr.Address, AT)
    IN  IF ~addr.ok THEN "ParseError"
        ELSE IF Len(parts) # 2 THEN "InvalidRecipient"
        ELSE IF ~EqualFold(parts[2], allowedDomain) THEN "DomainNotAllowed"
        ELSE "nil"

\* func (s *Session) Rcpt(to string, ...) error
Rcpt(s, to) ==
    /\ sess[s].pc = "idle"
    /\ sess[s].nTo < MaxAssign
    /\ sess' = IF RcptError(to) = "nil"
               THEN [sess EXCEPT ![s].to = ParseAddress(to).Address, ![s].nTo = @ + 1,
                                 ![s].reset = FALSE]
               ELSE sess
    /\ last' = Returned(s, "Rcpt", to, RcptError(to), FALSE)
    /\ UNCHANGED <<allowedDomain, inbox, inboxExp, counter, counterExp, now, req, resp, hist>>

\* func (s *Session) Reset() {}
Reset(s) ==
    /\ sess[s].pc = "idle"
    /\ sess' = [sess EXCEPT ![s].reset = TRUE]
    /\ UNCHANGED <<allowedDomain, last, inbox, inboxExp, counter, counterExp, now, req, resp, hist>>

\* func (s *Session) Logout() error { return nil }
Logout(s) ==
    /\ sess[s].pc = "idle"
    /\ UNCHANGED <<allowedDomain, sess, last, inbox, inboxExp, counter, counterExp, now, req, resp, hist>>

\* func (b *Backend) NewSession(...): the next connection, with a Session of its own
NewSession(s) ==
    /\ sess[s].pc = "idle"
    /\ sess[s] # FreshSession
    /\ sess' = [sess EXCEPT ![s] = FreshSession]
    /\ UNCHANGED <<allowedDomain, last, inbox, inboxExp, counter, counterExp, now, req, resp, hist>>

\* Session.Data, to the end of the admission check
DataBegin(s, outcome) ==
    LET key == <<"smtp", sess[s].from>>
    IN  /\ sess[s].pc = "idle"
        /\ hist.data < MaxData
        /\ allowTx(key, Window, outcome)
        /\ hist' = [allowHist(key, SmtpLimit, outcome) EXCEPT !.data = @ + 1]
        /\ IF allow(key, SmtpLimit, outcome)
           THEN /\ sess' = [sess EXCEPT ![s].pc = "admitted"]
                /\ last' = last
           ELSE /\ sess' = sess
                /\ last' = Returned(s, "Data", NoStream, "RateLimited", FALSE)
        /\ UNCHANGED <<allowedDomain, inbox, inboxExp, now, req, resp>>

\* Session.Data, from mail.CreateReader to LPush, reading the stream m
DataStore(s, m, outcome) ==
    LET d == Decompose(m)
        username == parseUsername(sess[s].to)
        j == Marshal(BuildMsg(s, m, d))
    IN  /\ sess[s].pc = "admitted"
        /\ IF ~d.ok
           THEN /\ sess' = [sess EXCEPT ![s].pc = "idle"]
                /\ last' = Returned(s, "Data", m, "MalformedMessage", FALSE)
                /\ UNCHANGED <<inbox, hist>>
           ELSE /\ sess' = [sess EXCEPT ![s].pc = "pushed", ![s].m = m, ![s].pushed = Applied(outcome)]
                /\ last' = last
                /\ inbox' = IF Applied(outcome)
                            THEN [inbox EXCEPT ![username] = LPush(@, j)]
                            ELSE inbox
                /\ hist' = IF Applied(outcome)
                           THEN [hist EXCEPT !.pushes[username] = Append(@, BuildMsg(s, m, d)),
                                             !.cleared[username] = FALSE]
                           ELSE hist
        /\ UNCHANGED <<allowedDomain, inboxExp, counter, counterExp, now, req, resp>>

\* Session.Data, the Expire call and the return
DataExpire(s, outcome) ==
    LET username == parseUsername(sess[s].to)
    IN  /\ sess[s].pc = "pushed"
        /\ inboxExp' = IF Applied(outcome)
                       THEN [inboxExp EXCEPT ![username] = Expire(inbox[username] # <<>>, @, InboxTTL)]
                       ELSE inboxExp
        /\ sess' = [sess EXCEPT ![s].pc = "idle", ![s].m = NoStream, ![s].pushed = FALSE]
        /\ last' = Returned(s, "Data", sess[s].m, "nil", sess[s].pushed)
        /\ UNCHANGED <<allowedDomain, inbox, counter, counterExp, now, req, resp, hist>>

(***************************************************************************)
(* The API: the admission middleware, APIKeyAuthMiddleware, the handler.   *)
(***************************************************************************)
\* validAPIKeys := map[string]bool{key: true}
validKeys == {ApiKey}

\* c.JSON of gin.H{...}: an object with an "error" or a "message" member
Object(member) == [kind |-> member, items |-> <<>>]

\* c.JSON of the slice `out`: a nil slice is written as null
EncodeJSON(out) == [kind |-> IF out = <<>> THEN "null" ELSE "array", items |-> out]

Response(w, method, user, key, status, out, body) ==
    [w |-> w, method |-> method, user |-> user, key |-> key, status |-> status, out |-> out,
     body |-> body]

\* a middleware that only rejects a missing header
AuthStatusNonEmpty(key) == IF key = "" THEN 401 ELSE 0

\* the status APIKeyAuthMiddleware aborts with, 0 when it calls c.Next()
AuthStatus(key) == IF key = "" \/ key \notin validKeys THEN 401 ELSE 0

\* the status the middleware chain aborts with, 0 when the handler is reached
ChainStatus(ip, key, outcome) ==
    IF ~allow(<<"api", ip>>, ApiLimit, outcome) THEN 429 ELSE AuthStatus(key)

\* a request, through the two middlewares
ApiBegin(w, method, user, key, ip, outcome) ==
    LET status == ChainStatus(ip, key, outcome)
    IN  /\ req[w].pc = "idle"
        /\ hist.reqs < MaxReq
        /\ allowTx(<<"api", ip>>, Window, outcome)
        /\ hist' = [allowHist(<<"api", ip>>, ApiLimit, outcome) EXCEPT !.reqs = @ + 1]
        /\ IF status # 0
           THEN /\ resp' = Response(w, method, user, key, status, <<>>, Object("error"))
                /\ req' = req
           ELSE /\ resp' = resp
                /\ req' = [req EXCEPT ![w] = [pc |-> "handler", method |-> method, user |-> user]]
        /\ UNCHANGED <<allowedDomain, sess, last, inbox, inboxExp, now>>

\* the `out` slice the GET handler builds from the entries LRange returned
Decoded(msgs) == [i \in 1..Len(msgs) |-> Unmarshal(msgs[i])]

\* router.GET("/emails/:username", ...)
GetEmails(w, outcome) ==
    LET user == req[w].user
        out == Decoded(LRange(inbox[user], ListStop))
    IN  /\ req[w].pc = "handler"
        /\ req[w].method = "GET"
        /\ resp' = IF outcome = "ok"
                   THEN Response(w, "GET", user, ApiKey, 200, out, EncodeJSON(out))
                   ELSE Response(w, "GET", user, ApiKey, 500, <<>>, Object("error"))
        /\ req' = [req EXCEPT ![w] = IdleWorker]
        /\ UNCHANGED <<allowedDomain, sess, last, inbox, inboxExp, counter, counterExp, now, hist>>

\* a DEL that names another key than the inbox's
DelOtherKey(f, key, empty) == f

\* DEL key
Del(f, key, empty) == [f EXCEPT ![key] = empty]

\* router.DELETE("/emails/:username", ...)
DeleteEmails(w, outcome) ==
    LET user == req[w].user
    IN  /\ req[w].pc = "handler"
        /\ req[w].method = "DELETE"
        /\ inbox' = IF Applied(outcome) THEN Del(inbox, user, <<>>) ELSE inbox
        /\ inboxExp' = IF Applied(outcome) THEN Del(inboxExp, user, NoExpiry) ELSE inboxExp
        /\ hist' = IF Applied(outcome)
                   THEN [hist EXCEPT !.cleared[user] = TRUE, !.pushes[user] = <<>>]
                   ELSE hist
        /\ resp' = Response(w, "DELETE", user, ApiKey, IF outcome = "ok" THEN 200 ELSE 500,
                            <<>>, Object(IF outcome = "ok" THEN "message" ELSE "error"))
        /\ req' = [req EXCEPT ![w] = IdleWorker]
        /\ UNCHANGED <<allowedDomain, sess, last, counter, counterExp, now>>

\* Another client of the store pushes to inbox:<user> an entry that is not a
\* JSON object: what the GET handler's json.Unmarshal fails on.
ForeignPush(user) ==
    /\ Cardinality({i \in 1..Len(inbox[user]) : inbox[user][i] = Undecodable}) < MaxForeign
    /\ inbox' = [inbox EXCEPT ![user] = LPush(@, Undecodable)]
    /\ hist' = [hist EXCEPT !.cleared[user] = FALSE]
    /\ UNCHANGED <<allowedDomain, sess, last, inboxExp, counter, counterExp, now, req, resp>>

(***************************************************************************)
(* Time.  The store removes every key whose expiry has been reached.       *)
(***************************************************************************)
\* by how much the clock moves in one step: half a window, or all but half a
\* window of the inbox retention
TimeSteps == {1, InboxTTL - 1}

Lapsed(exp, t) == exp # NoExpiry /\ exp <= t

Advance(d) ==
    /\ now < MaxTime
    /\ now' = now + d
    /\ inbox' = [u \in UserKeys |-> IF Lapsed(inboxExp[u], now') THEN <<>> ELSE inbox[u]]
    /\ inboxExp' = [u \in UserKeys |-> IF Lapsed(inboxExp[u], now') THEN NoExpiry ELSE inboxExp[u]]
    /\ counter' = [k \in CounterKeys |-> IF Lapsed(counterExp[k], now') THEN 0 ELSE counter[k]]
    /\ counterExp' = [k \in CounterKeys |->
                        IF Lapsed(counterExp[k], now') THEN NoExpiry ELSE counterExp[k]]
    /\ hist' = [hist EXCEPT
                  !.pushes = [u \in UserKeys |-> IF Lapsed(inboxExp[u], now') THEN <<>> ELSE @[u]],
                  !.incrs = [k \in CounterKeys |-> IF Lapsed(counterExp[k], now') THEN 0 ELSE @[k]],
                  !.trues = [k \in CounterKeys |-> IF Lapsed(counterExp[k], now') THEN 0 ELSE @[k]]]
    /\ UNCHANGED <<allowedDomain, sess, last, req, resp>>

(***************************************************************************)
(* Specifications.                                                         *)
(***************************************************************************)
\* the envelope calls of connections `ss`, and their replacement by new ones
EnvelopeNext(ss, froms, rcpts) ==
    \/ \E s \in ss, from \in froms : Mail(s, from)
    \/ \E s \in ss, to \in rcpts : Rcpt(s, to)
    \/ \E s \in ss : Reset(s)
    \/ \E s \in ss : Logout(s)
    \/ \E s \in ss : NewSession(s)

\* the Data calls of connections `ss` reading `streams`; `admit` are the outcomes
\* of allow's transaction, `store` those of LPush and Expire
DataNext(ss, streams, admit, store) ==
    \/ \E s \in ss, outcome \in admit : DataBegin(s, outcome)
    \/ \E s \in ss, m \in streams, outcome \in store : DataStore(s, m, outcome)
    \/ \E s \in ss, outcome \in store : DataExpire(s, outcome)

\* the API requests with these methods and key headers, through the middlewares
RequestNext(methods, keys, admit) ==
    \E w \in Workers, method \in methods, user \in {<<"u">>}, key \in keys, ip \in ClientIPs,
       outcome \in admit : ApiBegin(w, method, user, key, ip, outcome)

GetNext(store) == \E w \in Workers, outcome \in store : GetEmails(w, outcome)

DeleteNext(store) == \E w \in Workers, outcome \in store : DeleteEmails(w, outcome)

GoodStream == Stream(TRUE, "Hi", <<Inline("text/plain", "hello")>>)
HtmlStream == Stream(TRUE, "Re", <<Inline("text/html", "<p>")>>)
BadHeaderStream == Stream(FALSE, "", <<>>)
BadPartStream == Stream(TRUE, "Hi", <<Inline("text/plain", "hello"), BadPart>>)
ToU == <<"u", AT, "x">>
\* the store outcomes that differ for a caller that ignores the reply
Ignored == {"ok", "down"}

\* Spec: the server from construction: one connection with all its calls, the
\* API worker, and the clock moving by the inbox retention.
Init == InitWith({<<"x">>}, FreshSession, 0, 0, 0)

Next ==
    \/ EnvelopeNext({"c1"}, {"a@x.com"}, {ToU})
    \/ DataNext({"c1"}, {GoodStream, BadHeaderStream, BadPartStream}, {"ok"}, Ignored)
    \/ RequestNext({"GET", "DELETE"}, {ApiKey}, {"ok"})
    \/ GetNext(Outcomes)
    \/ DeleteNext(Outcomes)
    \/ Advance(InboxTTL)

Spec == Init /\ [][Next]_vars

\* SpecInbox: the inbox of u under appends, listing, clearing and expiry.  One
\* connection with its envelope set, malformed streams and store failures.
InitInbox == InitWith({<<"x">>}, ReadySession, 0, 0, 0)

NextInbox ==
    \/ DataNext({"c1"}, {GoodStream, BadHeaderStream, BadPartStream}, {"ok"}, Ignored)
    \/ RequestNext({"GET", "DELETE"}, {ApiKey}, {"ok"})
    \/ GetNext(Outcomes)
    \/ DeleteNext(Outcomes)
    \/ Advance(InboxTTL)

SpecInbox == InitInbox /\ [][NextInbox]_vars

\* SpecLimit: the admission checks near their limits.  Two connections of one
\* sender and the API worker, every outcome of allow's transaction, and the
\* clock moving by half a window.
InitLimit ==
    \E n \in {0, 1} : InitWith({<<"x">>}, ReadySession, 0, n * (SmtpLimit - 1), n * (ApiLimit - 1))

NextLimit ==
    \/ DataNext(Sessions, {GoodStream}, Outcomes, {"ok"})
    \/ RequestNext({"GET", "DELETE"}, KeyHeaders, Outcomes)
    \/ GetNext({"ok"})
    \/ DeleteNext({"ok"})
    \/ Advance(1)

SpecLimit == InitLimit /\ [][NextLimit]_vars

\* SpecList: inbox u from empty or holding 49 records; one connection appends
\* two kinds of message and the API lists; no DELETE, no expiry of the inbox.
InitList == \E nStored \in {0, ListStop} : InitWith({<<"x">>}, ReadySession, nStored, 0, 0)

NextList ==
    \/ DataNext({"c1"}, {GoodStream, HtmlStream}, {"ok"}, Ignored)
    \/ RequestNext({"GET"}, {ApiKey}, {"ok"})
    \/ GetNext(Outcomes)
    \/ Advance(1)

SpecList == InitList /\ [][NextList]_vars

\* SpecDecode: inbox u holding entries Session.Data wrote and entries it did
\* not; one connection appends and the API lists.
InitDecode == \E nStored \in {0, 1} : InitWith({<<"x">>}, ReadySession, nStored, 0, 0)

NextDecode ==
    \/ ForeignPush(<<"u">>)
    \/ DataNext({"c1"}, {GoodStream}, {"ok"}, {"ok"})
    \/ RequestNext({"GET"}, {ApiKey}, {"ok"})
    \/ GetNext(Outcomes)
    \/ Advance(1)

SpecDecode == InitDecode /\ [][NextDecode]_vars

\* SpecParts: the Message Decomposer on every stream of at most MaxParts
\* parts: inline parts of three media types with two contents, and attachments
\* with two filenames.  One connection whose next Data call is its last.
Parts ==
    {Inline(ct, body) : ct \in {"text/plain", "text/html"}, body \in {"a", "b"}}
        \cup {Inline("image/png", "a"), Attachment("f"), Attachment("g")}

RECURSIVE PartSeqs(_)
PartSeqs(n) ==
    IF n = 0 THEN {<<>>}
    ELSE PartSeqs(n - 1) \cup {Append(ps, p) : ps \in {q \in PartSeqs(n - 1) : Len(q) = n - 1}, p \in Parts}

PartStreams == {Stream(TRUE, "Hi", ps) : ps \in PartSeqs(MaxParts)}

InitParts == InitAfter({<<"x">>}, ReadySession, 0, 0, 0, MaxData - 1)

NextParts == DataNext({"c1"}, PartStreams, {"ok"}, {"ok"})

SpecParts == InitParts /\ [][NextParts]_vars

\* SpecConc: two connections of one sender append to inbox u concurrently,
\* each step of one Data call interleaved with the other's and with a GET;
\* LPush and Expire may fail.
InitConc == InitWith({<<"x">>}, ReadySession, 0, 0, 0)

NextConc ==
    \/ DataNext(Sessions, {GoodStream, HtmlStream}, {"ok"}, Ignored)
    \/ RequestNext({"GET"}, {ApiKey}, {"ok"})
    \/ GetNext({"ok"})

SpecConc == InitConc /\ [][NextConc]_vars

(***************************************************************************)
(* SpecRcpt: the envelope calls of one connection, Rcpt called with every  *)
(* string of at most MaxAddrLen characters, under each configured domain.  *)
(***************************************************************************)
AllowedDomains == {<<"x">>, <<"X", "x">>}
\* Rcpt arguments with a quoted local part: "x"@X, "@"@x, and an unclosed quote
QuotedRcpts == {<<DQ, "x", DQ, AT, "X">>, <<DQ, AT, DQ, AT, "x">>, <<DQ, "x", AT, "x">>}
RcptStrings == StringsUpTo(MaxAddrLen) \cup QuotedRcpts

InitRcpt == InitWith(AllowedDomains, FreshSession, 0, 0, 0)

NextRcpt ==
    \/ Mail("c1", "a@x.com")
    \/ \E to \in RcptStrings : Rcpt("c1", to)
    \/ Reset("c1")
    \/ Logout("c1")
    \/ NewSession("c1")

SpecRcpt == InitRcpt /\ [][NextRcpt]_vars

(***************************************************************************)
(* Claims.                                                                 *)
(***************************************************************************)
Count(str, c) == Cardinality({i \in 1..Len(str) : str[i] = c})
LowerCase(str) == [i \in 1..Len(str) |-> IF str[i] = "X" THEN "x" ELSE str[i]]
\* the part of an address after its "@", for an address with exactly one
DomainOf(addr) == SubSeq(addr, IndexOf(addr, AT) + 1, Len(addr))
\* `to` parses into a local part and a domain with exactly one "@"
WellFormedRcpt(to) == ParseAddress(to).ok /\ Count(ParseAddress(to).Address, AT) = 1
DomainAllowed(to) == LowerCase(DomainOf(ParseAddress(to).Address)) = LowerCase(allowedDomain)

\* C1: a Rcpt call whose argument parses into a local part and a domain with
\* exactly one "@" returns nil if and only if the domain equals allowedDomain
\* ignoring letter case, and returns the domain-not-allowed error otherwise;
\* when it returns nil the session's `to` is the parsed address.
C1_RcptDomainPolicy ==
    [][ (last'.op = "Rcpt" /\ Rcpt(last'.s, last'.arg) /\ WellFormedRcpt(last'.arg))
        => /\ last'.err = "nil" <=> DomainAllowed(last'.arg)
           /\ last'.err # "nil" => last'.err = "DomainNotAllowed" /\ sess' = sess
           /\ last'.err = "nil" => sess'[last'.s].to = ParseAddress(last'.arg).Address ]_vars

\* C1 witness: Rcpt accepted an address whose domain differs from
\* allowedDomain in letter case only, and the session holds the parsed address.
C1_Witness ==
    /\ last.op = "Rcpt" /\ last.err = "nil"
    /\ DomainOf(ParseAddress(last.arg).Address) # allowedDomain
    /\ sess[last.s].to = ParseAddress(last.arg).Address

SmtpKey(s) == <<"smtp", sess[s].from>>
Limit(key) == IF key[1] = "smtp" THEN SmtpLimit ELSE ApiLimit
RateLimited(s) == Returned(s, "Data", NoStream, "RateLimited", FALSE)

\* C2 (as stated): a Data call made when its sender's counter has reached the
\* limit in the live window returns the rate-limit error at once and leaves
\* every inbox as it was.
C2_LimitedSenderRejected ==
    [][ \A s \in Sessions :
          ((\E o \in Outcomes : DataBegin(s, o)) /\ counter[SmtpKey(s)] >= SmtpLimit)
          => (last' = RateLimited(s) /\ sess'[s].pc = "idle" /\ inbox' = inbox) ]_vars

\* the records listing u must return: the appends to u since it was last empty,
\* newest first, at most 50 of them
ExpectedList(u) ==
    LET p == hist.pushes[u]
        k == IF Len(p) < 50 THEN Len(p) ELSE 50
    IN  [i \in 1..k |-> p[Len(p) - i + 1]]

\* C3: a GET of u answered 200 returns exactly the last min(N, 50) of the N
\* records appended to u since u was empty, newest first.
C3_ListNewestFifty ==
    [][ \A w \in Workers : GetEmails(w, "ok") => resp'.out = ExpectedList(req[w].user) ]_vars

\* C3 witness: after 51 appends a list returned 50 records, the newest first.
C3_Witness ==
    /\ resp.method = "GET" /\ resp.status = 200
    /\ Len(hist.pushes[resp.user]) = 51 /\ Len(resp.out) = 50
    /\ resp.out[1] = hist.pushes[resp.user][51]
    /\ resp.out[50] = hist.pushes[resp.user][2]

\* C4: after a clear of u with no append since, a list of u returns the empty
\* sequence; a clear the store answers is reported 200 whether or not the
\* inbox existed, and a clear of an inbox already cleared changes nothing.
C4_ClearThenList ==
    [][ \A w \in Workers :
          /\ (GetEmails(w, "ok") /\ hist.cleared[req[w].user])
                => (resp'.status = 200 /\ resp'.out = <<>>)
          /\ DeleteEmails(w, "ok")
                => (resp'.status = 200 /\ inbox'[req[w].user] = <<>>)
          /\ ((\E o \in Outcomes : DeleteEmails(w, o)) /\ hist.cleared[req[w].user])
                => (inbox' = inbox /\ inboxExp' = inboxExp) ]_vars

\* C4 witness: a record was appended to u, u was cleared, and the list that
\* followed returned the empty sequence.
C4_Witness ==
    /\ last.op = "Data" /\ last.pushed
    /\ hist.reqs = 2 /\ hist.cleared[<<"u">>]
    /\ resp.method = "GET" /\ resp.status = 200 /\ resp.out = <<>>

BadKeys == KeyHeaders \ {ApiKey}
BadKeyRequest(w, method, key, ip) ==
    \E o \in Outcomes : ApiBegin(w, method, <<"u">>, key, ip, o)

\* C5 (as stated): a request whose X-API-KEY is missing or wrong is answered
\* 401 and leaves every inbox unchanged.
C5_BadKeyIs401 ==
    [][ \A w \in Workers, method \in {"GET", "DELETE"}, key \in BadKeys, ip \in ClientIPs :
          BadKeyRequest(w, method, key, ip) => (resp'.status = 401 /\ inbox' = inbox) ]_vars

\* C5 (amended): such a request is answered 401, or 429 when the admission
\* check that runs first finds the client's count above ApiLimit; either way it
\* never reaches the handler and leaves every inbox and its expiry unchanged.
C5_BadKeyIs401Or429 ==
    [][ \A w \in Workers, method \in {"GET", "DELETE"}, key \in BadKeys, ip \in ClientIPs :
          BadKeyRequest(w, method, key, ip)
          => /\ resp'.status \in {401, 429}
             /\ resp'.status = 429 => counter'[<<"api", ip>>] > ApiLimit
             /\ resp'.w = w /\ resp'.method = method /\ resp'.key = key
             /\ req' = req /\ inbox' = inbox /\ inboxExp' = inboxExp ]_vars

\* C5 witness: a DELETE with a wrong key was answered 401 while the inbox it
\* names holds a record.
C5_Witness ==
    /\ resp.method = "DELETE" /\ resp.key = "wrong" /\ resp.status = 401
    /\ inbox[resp.user] # <<>>

\* C6 (as stated): when allow's transaction does not reach the store, Data
\* returns the rate-limit error and the API answers 429.
C6_FailClosed ==
    [][ /\ \A s \in Sessions : DataBegin(s, "down") => (last' = RateLimited(s) /\ sess'[s].pc = "idle")
        /\ \A w \in Workers, method \in {"GET", "DELETE"}, key \in KeyHeaders, ip \in ClientIPs :
              ApiBegin(w, method, <<"u">>, key, ip, "down") => resp'.status = 429 ]_vars

\* C7 (as stated): a Data call that returns nil appended its record.
C7_SuccessMeansStored == (last.op = "Data" /\ last.err = "nil") => last.pushed

\* the framing of stream m cannot be parsed, at the header or at a later part
Malformed(m) == ~m.headerOK \/ \E i \in 1..Len(m.parts) : m.parts[i].kind = "error"
AllStreams == {GoodStream, HtmlStream, BadHeaderStream, BadPartStream}

\* C8: a Data call that reads a stream whose framing cannot be parsed returns
\* an error and leaves every inbox, and its expiry, as it was.
C8_MalformedStoresNothing ==
    [][ \A s \in Sessions, m \in AllStreams :
          ((\E o \in Outcomes : DataStore(s, m, o)) /\ Malformed(m))
          => /\ last' = Returned(s, "Data", m, "MalformedMessage", FALSE)
             /\ sess'[s].pc = "idle"
             /\ inbox' = inbox /\ inboxExp' = inboxExp ]_vars

\* C8 witness: Data failed on a stream whose header parsed and whose second
\* part did not, with the inbox holding an earlier record.
C8_Witness ==
    /\ last.op = "Data" /\ last.err = "MalformedMessage" /\ last.arg = BadPartStream
    /\ inbox[<<"u">>] # <<>>

\* C9 (as stated): the count of a live counter is at most its limit.
C9_CountWithinLimit == \A k \in CounterKeys : counter[k] <= Limit(k)

\* C9 (amended): the count of a live counter is the number of allow calls the
\* store applied to the key since the counter was created, denied calls
\* included, and the counter is live; it is not bounded by the limit.
C9_CountIsCallsApplied ==
    \A k \in CounterKeys :
        /\ counter[k] = hist.incrs[k]
        /\ counter[k] > 0 => (counterExp[k] # NoExpiry /\ counterExp[k] > now)

\* C9 witness: a counter above its limit, in a live window.
C9_Witness ==
    \E k \in CounterKeys : counter[k] = Limit(k) + 1 /\ counterExp[k] > now /\ hist.incrs[k] = counter[k]

\* C10 (as stated): of the allow calls made on one key in one live window, at
\* most `limit` are answered "allowed".
C10_AtMostLimitAllowed ==
    \A k \in CounterKeys : counter[k] > 0 => hist.trues[k] <= Limit(k)

\* the record a step pushed to inbox u, when the step pushed one
Pushed(u) == Unmarshal(inbox'[u][1])

\* C11 (as stated): a Data call made after Reset, with neither envelope field
\* assigned since, stores no record carrying a sender or a recipient.
C11_ResetForgetsEnvelope ==
    [][ \A s \in Sessions, m \in AllStreams :
          ((\E o \in Outcomes : DataStore(s, m, o)) /\ sess[s].reset)
          => \A u \in UserKeys :
                inbox'[u] # inbox[u] => (Pushed(u).from = "" /\ Pushed(u).to = <<>>) ]_vars

\* the entries of a list that decode as a Message Record, decoded, in order
RECURSIVE DecodableOf(_)
DecodableOf(msgs) ==
    IF msgs = <<>> THEN <<>>
    ELSE IF Head(msgs)[1] = "json" THEN <<Head(msgs)[2]>> \o DecodableOf(Tail(msgs))
    ELSE DecodableOf(Tail(msgs))

\* C12 (as stated): a GET the store answers returns 200 with one element per
\* decodable entry among the first 50 of the inbox, and nothing for an entry
\* that does not decode.
C12_UndecodableSkipped ==
    [][ \A w \in Workers :
          GetEmails(w, "ok")
          => /\ resp'.status = 200
             /\ Len(resp'.out) = Len(DecodableOf(LRange(inbox[req[w].user], ListStop)))
             /\ \A i \in 1..Len(resp'.out) : resp'.out[i] # NilMessage ]_vars

\* the content of the last inline part of media type ct, "" if there is none
LastInline(parts, ct) ==
    LET I == {i \in 1..Len(parts) : parts[i].kind = "inline" /\ parts[i].ct = ct}
    IN  IF I = {} THEN "" ELSE parts[CHOOSE i \in I : \A j \in I : j <= i].body

\* the filenames of the attachment parts, in encounter order
AttachmentNames(parts) ==
    LET A == SelectSeq(parts, LAMBDA p : p.kind = "attachment")
    IN  [i \in 1..Len(A) |-> A[i].filename]

\* C13: the record Data stores for a stream has as body_text the content of
\* the last text/plain inline part, as body_html that of the last text/html
\* inline part ("" when there is none), and as attachments the filenames of
\* the attachment parts in order; inline parts of another type change nothing.
C13_LastInlineWins ==
    [][ \A s \in Sessions, m \in PartStreams :
          DataStore(s, m, "ok")
          => LET r == Pushed(parseUsername(sess[s].to))
             IN  /\ r.body_text = LastInline(m.parts, "text/plain")
                 /\ r.body_html = LastInline(m.parts, "text/html")
                 /\ r.attachments = AttachmentNames(m.parts) ]_vars

\* C13 witness: a stream with two text/plain parts and an attachment was
\* stored with the second part's content.
C13_Witness ==
    /\ sess["c1"].pc = "pushed"
    /\ sess["c1"].m.parts = <<Inline("text/plain", "a"), Inline("text/plain", "b"), Attachment("f")>>
    /\ Unmarshal(inbox[<<"u">>][1]).body_text = "b"
    /\ Unmarshal(inbox[<<"u">>][1]).attachments = <<"f">>

\* C14 (as stated): no inbox holds a record while having no expiry set.
C14_RecordHasExpiry == \A u \in UserKeys : inbox[u] # <<>> => inboxExp[u] # NoExpiry

\* C15 (as stated): a Data call on a connection on which no recipient was
\* accepted returns an error and appends no record: its admission step
\* returns the error, and no step of it changes an inbox.
C15_DataNeedsRecipient ==
    [][ \A s \in Sessions :
          /\ ((\E o \in Outcomes : DataBegin(s, o)) /\ sess[s].nTo = 0)
                => (last'.s = s /\ last'.op = "Data" /\ last'.err # "nil" /\ sess'[s].pc = "idle")
          /\ ((\E m \in AllStreams, o \in Outcomes : DataStore(s, m, o)) /\ sess[s].nTo = 0)
                => inbox' = inbox ]_vars

\* C16 (as stated): on every connection the sender and the recipient are each
\* assigned at most once.
C16_AssignedOnce == \A s \in Sessions : sess[s].nFrom <= 1 /\ sess[s].nTo <= 1

\* C17 (as stated): an allow call on a key is answered "allowed" only if fewer
\* than `limit` calls were counted on the key's live counter (none, after a
\* pause of a window): once the limit-th call is counted, every call is
\* denied for as long as the counter lives.
C17_CappedUntilPause ==
    [][ \A k \in CounterKeys :
          hist'.trues[k] = hist.trues[k] + 1 => counter[k] < Limit(k) ]_vars

\* the records inbox u holds, newest first
Stored(u) == [i \in 1..Len(inbox[u]) |-> inbox[u][i][2]]
\* the first n elements of a sequence
FirstN(seq, n) == SubSeq(seq, 1, IF Len(seq) < n THEN Len(seq) ELSE n)

\* C18: whatever the interleaving of the connections, an inbox holds exactly
\* the records whose pushes the store applied, once each, in the reverse of
\* the order in which it applied them, and a list returns them in that order.
C18_ConcurrentAppends ==
    /\ [](\A u \in UserKeys : Stored(u) = Reverse(hist.pushes[u]))
    /\ [][ \A w \in Workers :
             GetEmails(w, "ok") => resp'.out = FirstN(Reverse(hist.pushes[req[w].user]), 50) ]_vars

\* C18 witness: both connections are inside Data, each has pushed a record,
\* and a list made meanwhile returned the two, the later push first.
C18_Witness ==
    /\ sess["c1"].pc = "pushed" /\ sess["c2"].pc = "pushed"
    /\ sess["c1"].pushed /\ sess["c2"].pushed
    /\ sess["c1"].m # sess["c2"].m
    /\ resp.status = 200 /\ Len(resp.out) = 2
    /\ resp.out[1].subject = sess["c1"].m.subject
    /\ resp.out[2].subject = sess["c2"].m.subject
    /\ hist.pushes[<<"u">>] = <<resp.out[2], resp.out[1]>>

\* C19 (as stated): a Data call that pushed its record and finds it still in
\* the inbox leaves the inbox expiring 24 hours from now, and a list changes
\* no expiry.
C19_AppendResetsExpiry ==
    [][ /\ \A s \in Sessions :
             ( /\ \E o \in Outcomes : DataExpire(s, o)
               /\ sess[s].pushed
               /\ inbox[parseUsername(sess[s].to)] # <<>> )
             => inboxExp'[parseUsername(sess[s].to)] = now + InboxTTL
        /\ \A w \in Workers :
             (\E o \in Outcomes : GetEmails(w, o)) => inboxExp' = inboxExp ]_vars

\* C20 (as stated): a Data call that goes on to return nil appends exactly one
\* record, carrying the session's recipient, to the inbox named by the local
\* part of that recipient, and changes no other inbox.
C20_OneRecordOneInbox ==
    [][ \A s \in Sessions, m \in AllStreams :
          ((\E o \in Outcomes : DataStore(s, m, o)) /\ ~Malformed(m))
          => LET u == parseUsername(sess[s].to)
             IN  /\ Len(inbox'[u]) = Len(inbox[u]) + 1
                 /\ Pushed(u).to = sess[s].to
                 /\ \A v \in UserKeys \ {u} : inbox'[v] = inbox[v] ]_vars

\* C21 (as stated): a request from a client address whose live counter has
\* reached ApiLimit is answered 429 whatever its X-API-KEY, without reaching
\* the credential check or the handler, and changes no inbox.
C21_OverLimitIs429 ==
    [][ \A w \in Workers, method \in {"GET", "DELETE"}, key \in KeyHeaders, ip \in ClientIPs :
          ( /\ \E o \in Outcomes : ApiBegin(w, method, <<"u">>, key, ip, o)
            /\ counter[<<"api", ip>>] >= ApiLimit )
          => (resp'.status = 429 /\ resp'.key = key /\ req' = req /\ inbox' = inbox) ]_vars

====
